---- MODULE Spec2Model ----
(***************************************************************************)
(* A model of the Express/Sequelize tutorial server.                       *)
(*                                                                         *)
(*   index.js        the start-up script, the middleware chain, onError    *)
(*   routes/user.js  the /users router and its in-memory users array       *)
(*   models          dbInit: authenticate, then sync                       *)
(*   README example  readFiles as an event emitter (EmitterSpec)           *)
(*                                                                         *)
(* Node runs every callback to completion: an exchange moves through the   *)
(* chain in one step until a stage waits for I/O (the static file lookup,  *)
(* the reading of a request body) or a response is sent.                   *)
(***************************************************************************)
EXTENDS Bags, FiniteSets, Integers, Sequences, TLC

VARIABLES
  mainPc,    \* position of the start-up script index.js
  stack,     \* the layers registered on the app so far, in order
  dbPc,      \* position of the async function dbInit
  dbLog,     \* what dbInit wrote to the console
  proc,      \* "running" or "crashed"
  users,     \* routes/user.js: the users array
  pending,   \* bag of exchanges waiting for I/O
  done,      \* <<x>>: the exchange answered in this tick; <<>> otherwise
  posted,    \* history: the names POST /users answered with a redirect for
  ex         \* the event emitter example: the script and its emitter

vars == <<mainPc, stack, dbPc, dbLog, proc, users, pending, done, posted, ex>>

(***************************************************************************)
(* Bounds of the model.                                                    *)
(***************************************************************************)
MaxUsers == 2       \* length of the users array at which POST /users stops
MaxInFlight == 1    \* exchanges waiting for I/O at the same time

(***************************************************************************)
(* Program constants.                                                      *)
(***************************************************************************)
RandomScale == 10   \* Math.round(Math.random() * 10)
SeedId == 1         \* users[0].id

Names == {"Alice", "Bob"}
SeedUser == [id |-> SeedId, name |-> "Antonio", tasks |-> <<>>]

(***************************************************************************)
(* Requests.  A path is the sequence of its segments; slash tells whether  *)
(* the URL ends in "/".  ctype is the content type of the body ("none":    *)
(* no body), bodyOk whether the body decodes, name the body's name field.  *)
(***************************************************************************)
Req(m, p, s, c, ok, n) ==
  [method |-> m, path |-> p, slash |-> s, ctype |-> c, bodyOk |-> ok, name |-> n]

GetRequests ==
  { Req("GET", p, FALSE, "none", TRUE, "") :
      p \in {<<>>, <<"users">>, <<"style.css">>, <<"nope">>} }

CreateRequests ==
  { Req("POST", <<"users">>, FALSE, "urlencoded", TRUE, n) : n \in Names }
  \cup { Req("POST", <<"users">>, FALSE, "json", TRUE, "Alice"),
         Req("POST", <<"users">>, TRUE, "urlencoded", TRUE, "Bob") }

BadRequests == { Req("POST", <<"users">>, FALSE, c, FALSE, "") : c \in {"json", "urlencoded"} }

UserIds == {"1", "7"}
TaskIds == {"3"}

PlaceholderRequests ==
  { Req("POST", p, FALSE, "none", TRUE, "") :
      p \in { <<"users", i, "delete">> : i \in UserIds }
         \cup { <<"users", i, "tasks">> : i \in UserIds }
         \cup { <<"users", i, "tasks", t, "delete">> : i \in UserIds, t \in TaskIds } }

Requests == GetRequests \cup CreateRequests \cup BadRequests \cup PlaceholderRequests

\* req.params.id is text; the number it denotes
ParseId(s) == CASE s = "1" -> 1 [] s = "7" -> 7 [] s = "3" -> 3 [] OTHER -> -1

(***************************************************************************)
(* Errors and responses.                                                   *)
(***************************************************************************)
Err(k, m) == [kind |-> k, message |-> m]
NoErr == Err("none", "")

Res(st, k, t, loc, us) ==
  [status |-> st, kind |-> k, text |-> t, location |-> loc, users |-> us]
NoRes == Res(0, "none", "", "", <<>>)

NoBody == [parsed |-> FALSE, name |-> ""]

\* An exchange: the request, what the decoders made of its body, the error
\* passed to next(err), the stage it waits in, the stages run, the response
\* and the number of responses sent.
NewExchange(r) ==
  [req |-> r, body |-> NoBody, err |-> NoErr, failedAt |-> "", at |-> 0,
   trace |-> <<>>, res |-> NoRes, sent |-> 0]

(***************************************************************************)
(* Layers.  A layer registered with app.use matches every path under its   *)
(* mount path; a route matches its method and its whole path pattern; an   *)
(* error handler is only entered with an error.                            *)
(***************************************************************************)
Lit(s) == [param |-> FALSE, s |-> s]
Param(s) == [param |-> TRUE, s |-> s]

Layer(n, k, m, p) == [name |-> n, kind |-> k, method |-> m, pattern |-> p]

\* routes/user.js: the router's routes, in the order they are defined
UsersRouter ==
  << Layer("users.get", "route", "GET", <<>>),
     Layer("users.post", "route", "POST", <<>>),
     Layer("users.delete", "route", "POST", <<Param("id"), Lit("delete")>>),
     Layer("users.tasks", "route", "POST", <<Param("id"), Lit("tasks")>>),
     Layer("users.tasks.delete", "route", "POST",
           <<Param("id"), Lit("tasks"), Param("taskId"), Lit("delete")>>) >>

\* the chain with onError registered before the router
AppStackErrorFirst ==
  << Layer("static", "use", "*", <<>>),
     Layer("json", "use", "*", <<>>),
     Layer("urlencoded", "use", "*", <<>>),
     Layer("logRequestInfo", "use", "*", <<>>),
     Layer("logRequestTime", "use", "*", <<>>),
     Layer("root.get", "route", "GET", <<>>),
     Layer("onError", "error", "*", <<>>),
     Layer("users", "use", "*", <<Lit("users")>>) >>

\* index.js: the app.use / app.get statements, in program order
AppStack ==
  << Layer("static", "use", "*", <<>>),
     Layer("json", "use", "*", <<>>),
     Layer("urlencoded", "use", "*", <<>>),
     Layer("logRequestInfo", "use", "*", <<>>),
     Layer("logRequestTime", "use", "*", <<>>),
     Layer("root.get", "route", "GET", <<>>),
     Layer("users", "use", "*", <<Lit("users")>>),
     Layer("onError", "error", "*", <<>>) >>

SegMatches(seg, s) == seg.param \/ seg.s = s

\* the pattern matches the first Len(pattern) segments of the path
PrefixMatches(pattern, path) ==
  /\ Len(pattern) <= Len(path)
  /\ \A i \in 1..Len(pattern) : SegMatches(pattern[i], path[i])

\* Express routing is not strict: a trailing slash is ignored
Matches(layer, method, path) ==
  IF layer.kind = "route"
    THEN /\ layer.method = method
         /\ Len(layer.pattern) = Len(path)
         /\ PrefixMatches(layer.pattern, path)
    ELSE PrefixMatches(layer.pattern, path)

\* req.params: the named segments of the matched pattern
ParamsOf(pattern, path) ==
  [n \in {pattern[i].s : i \in {j \in 1..Len(pattern) : pattern[j].param}} |->
     path[CHOOSE i \in 1..Len(pattern) : pattern[i].param /\ pattern[i].s = n]]

\* a chain that goes on entering the normal stages with an error pending
AppliesNoSkip(layer, x) ==
  IF layer.kind = "error"
    THEN x.err # NoErr
    ELSE Matches(layer, x.req.method, x.req.path)

\* With an error pending only error handlers are entered; without one they
\* are skipped.
Applies(layer, x) ==
  IF x.err # NoErr
    THEN layer.kind = "error"
    ELSE layer.kind # "error" /\ Matches(layer, x.req.method, x.req.path)

(***************************************************************************)
(* What a stage does with an exchange: it continues (next()), fails        *)
(* (next(err) or a throw), sends the response, or waits for I/O.           *)
(***************************************************************************)
Out(t, x, u) == [type |-> t, x |-> x, users |-> u]

Continue(x, u) == Out("next", x, u)
Fail(x, u, stage, e) == Out("next", [x EXCEPT !.err = e, !.failedAt = stage], u)
Send(x, u, r) == Out("send", [x EXCEPT !.res = r, !.sent = @ + 1], u)
Wait(x, u) == Out("wait", x, u)

PublicFiles == {<<"style.css">>}

\* express.static('public'): other methods than GET fall through at once;
\* a GET waits for the file lookup, whose result is io
ExpressStatic(x, u, resumed, in) ==
  IF x.req.method # "GET" THEN Continue(x, u)
  ELSE IF ~resumed THEN Wait(x, u)
  ELSE IF in.io = "eio" THEN Fail(x, u, "static", Err("Error", "EIO: i/o error, stat"))
  ELSE IF x.req.path \in PublicFiles THEN Send(x, u, Res(200, "file", "style.css", "", <<>>))
  ELSE Continue(x, u)

\* express.json(): reads and parses a JSON body
ExpressJson(x, u, resumed, in) ==
  IF x.body.parsed \/ x.req.ctype # "json" THEN Continue(x, u)
  ELSE IF ~resumed THEN Wait(x, u)
  ELSE IF x.req.bodyOk
    THEN Continue([x EXCEPT !.body = [parsed |-> TRUE, name |-> x.req.name]], u)
    ELSE Fail(x, u, "json", Err("SyntaxError", "Unexpected token in JSON"))

\* express.urlencoded({ extended: false }): the same for a form body
ExpressUrlencoded(x, u, resumed, in) ==
  IF x.body.parsed \/ x.req.ctype # "urlencoded" THEN Continue(x, u)
  ELSE IF ~resumed THEN Wait(x, u)
  ELSE IF x.req.bodyOk
    THEN Continue([x EXCEPT !.body = [parsed |-> TRUE, name |-> x.req.name]], u)
    ELSE Fail(x, u, "urlencoded", Err("UnsupportedMediaTypeError", "unsupported charset"))

logRequestInfo(x, u) == Continue(x, u)

logRequestTime(x, u) == Continue(x, u)

\* res.redirect(url): 302 with the Location header set to url as given
Redirect(url) == Res(302, "redirect", "", url, <<>>)

\* app.get('/', ...)
RootGet(x, u) == Send(x, u, Redirect("users"))

\* router.get('/'): res.render('users.pug', { users: users }); a failure of the
\* view engine is passed to next(err)
UsersGet(x, u, in) ==
  IF in.renderOk
    THEN Send(x, u, Res(200, "render", "users.pug", "", u))
    ELSE Fail(x, u, "users.get", Err("Error", "Failed to lookup view"))

\* Math.round(Math.random() * 10)
RandomIds == 0..RandomScale

\* a user pushed without its name
NewUserNoName(rnd, name) == [id |-> rnd, name |-> "", tasks |-> <<>>]


NewUser(rnd, name) == [id |-> rnd, name |-> name, tasks |-> <<>>]

\* router.post('/') without the push
UsersPostNoPush(x, u, in) == Send(x, u, Redirect("users"))

\* router.post('/')
UsersPost(x, u, in) ==
  Send(x, Append(u, NewUser(in.rnd, x.body.name)), Redirect("users"))

\* router.post('/:id/delete') removing the user
UsersDeleteRemoves(x, u, params) ==
  Send(x, SelectSeq(u, LAMBDA w : w.id # ParseId(params.id)),
       Res(200, "text", "Delete user", "", <<>>))

\* router.post('/:id/delete')
UsersDelete(x, u, params) == Send(x, u, Res(200, "text", "Delete user", "", <<>>))

\* router.post('/:id/tasks')
UsersTasks(x, u, params) == Send(x, u, Res(200, "text", "Create task", "", <<>>))

\* router.post('/:id/tasks/:taskId/delete')
UsersTasksDelete(x, u, params) == Send(x, u, Res(200, "text", "Delete task", "", <<>>))

\* onError without res.status(500): the status stays 200
onErrorNoStatus(x, u) ==
  Send(x, u, Res(200, "text", "Something went wrong: " \o x.err.message, "", <<>>))

\* onError(err, req, res, next)
onError(x, u) ==
  Send(x, u, Res(500, "text", "Something went wrong: " \o x.err.message, "", <<>>))

\* the path below the mount path
Below(layer, path) == SubSeq(path, Len(layer.pattern) + 1, Len(path))

Ran(x, name) == [x EXCEPT !.trace = Append(@, name)]

\* the /users router: the first route that matches handles the request; with
\* none, the router calls next()
UsersDispatch(layer, x, u, in) ==
  LET rest == Below(layer, x.req.path)
      hits == {k \in 1..Len(UsersRouter) : Matches(UsersRouter[k], x.req.method, rest)}
  IN IF hits = {} THEN Continue(x, u)
     ELSE LET route == UsersRouter[CHOOSE k \in hits : \A j \in hits : k <= j]
              params == ParamsOf(route.pattern, rest)
              y == Ran(x, route.name)
          IN CASE route.name = "users.get" -> UsersGet(y, u, in)
               [] route.name = "users.post" -> UsersPost(y, u, in)
               [] route.name = "users.delete" -> UsersDelete(y, u, params)
               [] route.name = "users.tasks" -> UsersTasks(y, u, params)
               [] OTHER -> UsersTasksDelete(y, u, params)

\* a layer's handler
Invoke(layer, x, u, resumed, in) ==
  LET y == IF resumed \/ layer.name = "users" THEN x ELSE Ran(x, layer.name)
  IN CASE layer.name = "static" -> ExpressStatic(y, u, resumed, in)
       [] layer.name = "json" -> ExpressJson(y, u, resumed, in)
       [] layer.name = "urlencoded" -> ExpressUrlencoded(y, u, resumed, in)
       [] layer.name = "logRequestInfo" -> logRequestInfo(y, u)
       [] layer.name = "logRequestTime" -> logRequestTime(y, u)
       [] layer.name = "root.get" -> RootGet(y, u)
       [] layer.name = "users" -> UsersDispatch(layer, y, u, in)
       [] OTHER -> onError(y, u)

\* Express's answer when the chain ends without a response
FinalHandler(x, u) ==
  IF x.err # NoErr
    THEN Send(x, u, Res(500, "text", x.err.message, "", <<>>))
    ELSE Send(x, u, Res(404, "text", "Cannot " \o x.req.method, "", <<>>))

\* the next layer that applies runs, and so on, until a stage waits or a
\* response is sent
RECURSIVE Walk(_, _, _, _, _)
Walk(x, i, u, resumed, in) ==
  IF i > Len(stack) THEN FinalHandler(x, u)
  ELSE IF ~Applies(stack[i], x) THEN Walk(x, i + 1, u, FALSE, in)
  ELSE LET o == Invoke(stack[i], x, u, resumed, in)
       IN CASE o.type = "next" -> Walk(o.x, i + 1, o.users, FALSE, in)
            [] o.type = "wait" -> Out("wait", [o.x EXCEPT !.at = i], o.users)
            [] OTHER -> o

(***************************************************************************)
(* The event emitter example: a script calls readFiles, which makes an     *)
(* emitter, emits on it and returns it; the script then attaches its       *)
(* handlers to the emitter returned.  emit calls the listeners attached at *)
(* the time of the call, in order, and keeps nothing for later ones.       *)
(***************************************************************************)
MaxFiles == 3       \* length of the list of files read

FileNames == {"file1", "file2"}

RECURSIVE SeqsUpTo(_, _)
SeqsUpTo(S, n) ==
  IF n = 0 THEN {<<>>}
  ELSE LET shorter == SeqsUpTo(S, n - 1)
       IN shorter \cup {Append(q, e) : q \in shorter, e \in S}

FileLists == SeqsUpTo(FileNames, MaxFiles)

NoListeners == [COMPLETE |-> <<>>, ERROR |-> <<>>]

\* the example at position pc, with somethingBadHappened = bad and files = fs
Example(pc, bad, fs) ==
  [pc |-> pc, bad |-> bad, files |-> fs,
   listeners |-> NoListeners,     \* of the emitter readFiles returns
   dlisteners |-> NoListeners,    \* of the emitter deleteFiles returns
   invoked |-> <<>>,              \* the handlers called, with their argument
   deleting |-> <<>>,             \* the file lists deleteFiles was called with
   console |-> <<>>]

ExIdle == Example("idle", FALSE, <<>>)

Arg(fs, msg) == [files |-> fs, message |-> msg]

\* the handlers of lines 40-51, by the name the model gives them
Handle(e, h, arg) ==
  LET f == [e EXCEPT !.invoked = Append(@, [handler |-> h, arg |-> arg])]
  IN CASE h = "readComplete" ->
            [f EXCEPT !.deleting = Append(@, arg.files),
                      !.dlisteners = [COMPLETE |-> <<"deleteComplete">>,
                                      ERROR |-> <<"deleteError">>]]
       [] h = "deleteComplete" -> [f EXCEPT !.console = Append(@, "Files deleted")]
       [] OTHER -> [f EXCEPT !.console = Append(@, arg.message)]

\* emitter.emit(event, arg): the listeners attached now are called in order
RECURSIVE CallAll(_, _, _)
CallAll(e, hs, arg) ==
  IF hs = <<>> THEN e ELSE CallAll(Handle(e, Head(hs), arg), Tail(hs), arg)

Emit(e, event, arg) == CallAll(e, e.listeners[event], arg)

\* emitter.on(event, h)
On(e, event, h) == [e EXCEPT !.listeners[event] = Append(@, h)]

ServerIdle == UNCHANGED <<mainPc, stack, dbPc, dbLog, proc, users, pending, done, posted>>

ExStep(from, to, e) == ex.pc = from /\ ex' = [e EXCEPT !.pc = to] /\ ServerIdle

\* line 39: readFiles(['file1', 'file2'])
CallReadFiles == ExStep("start", "readFiles", ex)

\* line 55: const emitter = new EventEmitter()
NewEmitter == ExStep("readFiles", "emit", [ex EXCEPT !.listeners = NoListeners])

\* lines 56-60: emit 'ERROR' with an Error, or 'COMPLETE' with the files
EmitOutcome ==
  ExStep("emit", "return",
         IF ex.bad THEN Emit(ex, "ERROR", Arg(<<>>, "Something crashed"))
                   ELSE Emit(ex, "COMPLETE", Arg(ex.files, "")))

\* line 61: return emitter
ReturnEmitter == ExStep("return", "onComplete", ex)

\* line 40: .on('COMPLETE', ...)
AttachComplete == ExStep("onComplete", "onError", On(ex, "COMPLETE", "readComplete"))

\* line 49: .on('ERROR', ...)
AttachError == ExStep("onError", "end", On(ex, "ERROR", "readError"))

EmitterInit ==
  /\ mainPc = "start"
  /\ stack = <<>>
  /\ dbPc = "idle"
  /\ dbLog = {}
  /\ proc = "running"
  /\ users = <<SeedUser>>
  /\ pending = EmptyBag
  /\ done = <<>>
  /\ posted = <<>>
  /\ ex \in {Example("start", bad, fs) : bad \in BOOLEAN, fs \in FileLists}

EmitterNext ==
  CallReadFiles \/ NewEmitter \/ EmitOutcome \/ ReturnEmitter \/ AttachComplete
    \/ AttachError

EmitterSpec == EmitterInit /\ [][EmitterNext]_vars


(***************************************************************************)
(* The start-up script, index.js.                                          *)
(***************************************************************************)
Init ==
  /\ mainPc = "start"
  /\ stack = <<>>
  /\ dbPc = "idle"
  /\ dbLog = {}
  /\ proc = "running"
  /\ users = <<SeedUser>>
  /\ pending = EmptyBag
  /\ done = <<>>
  /\ posted = <<>>
  /\ ex = ExIdle

\* dbInit(): the call runs dbInit up to its first await and returns its promise,
\* which nothing awaits
CallDbInit ==
  /\ mainPc = "start"
  /\ mainPc' = "wiring"
  /\ dbPc' = "authenticate"
  /\ UNCHANGED <<stack, dbLog, proc, users, pending, done, posted, ex>>

\* app.use(...), app.get(...): the next layer of the chain
Register ==
  /\ mainPc = "wiring"
  /\ Len(stack) < Len(AppStack)
  /\ stack' = Append(stack, AppStack[Len(stack) + 1])
  /\ UNCHANGED <<mainPc, dbPc, dbLog, proc, users, pending, done, posted, ex>>

\* app.listen after an awaited dbInit
CanListenAwaited ==
  mainPc = "wiring" /\ Len(stack) = Len(AppStack) /\ dbPc = "resolved"

\* what app.listen waits for: the statements before it
CanListen == mainPc = "wiring" /\ Len(stack) = Len(AppStack)

\* app.listen(port, ...)
Listen ==
  /\ CanListen
  /\ mainPc' = "binding"
  /\ UNCHANGED <<stack, dbPc, dbLog, proc, users, pending, done, posted, ex>>

\* the listen callback: the server accepts connections
OnListening ==
  /\ mainPc = "binding"
  /\ proc = "running"
  /\ done = <<>>
  /\ mainPc' = "listening"
  /\ UNCHANGED <<stack, dbPc, dbLog, proc, users, pending, done, posted, ex>>

MainStep == CallDbInit \/ Register \/ Listen \/ OnListening

(***************************************************************************)
(* dbInit.  Its awaits complete in later ticks than the start-up script.   *)
(***************************************************************************)
ScriptDone == mainPc \in {"binding", "listening"}

DbTick(pc) == proc = "running" /\ ScriptDone /\ done = <<>> /\ dbPc = pc

\* await sequelize.authenticate() resolves
AuthOk ==
  /\ DbTick("authenticate")
  /\ dbLog' = dbLog \cup {"Connection has been established successfully."}
  /\ dbPc' = "sync"
  /\ UNCHANGED <<mainPc, stack, proc, users, pending, done, posted, ex>>

\* await sequelize.authenticate() rejects: caught and logged
AuthFail ==
  /\ DbTick("authenticate")
  /\ dbLog' = dbLog \cup {"Unable to dbInit to the database:"}
  /\ dbPc' = "sync"
  /\ UNCHANGED <<mainPc, stack, proc, users, pending, done, posted, ex>>

\* await sequelize.sync() resolves: dbInit's promise is fulfilled
SyncOk ==
  /\ DbTick("sync")
  /\ dbPc' = "resolved"
  /\ UNCHANGED <<mainPc, stack, dbLog, proc, users, pending, done, posted, ex>>

\* what the runtime does with a rejected promise nobody handles: a warning
\* (the process goes on) or the end of the process, by its version
UnhandledRejection == {"running", "crashed"}

\* await sequelize.sync() rejects outside the try: dbInit's promise is rejected
SyncFail ==
  /\ DbTick("sync")
  /\ dbPc' = "rejected"
  /\ \E outcome \in UnhandledRejection :
       /\ proc' = outcome
       /\ IF outcome = "crashed"
            THEN users' = <<>> /\ pending' = EmptyBag /\ posted' = <<>>
            ELSE UNCHANGED <<users, pending, posted>>
  /\ UNCHANGED <<mainPc, stack, dbLog, done, ex>>

DbStep == AuthOk \/ AuthFail \/ SyncOk \/ SyncFail

(***************************************************************************)
(* Requests.                                                               *)
(***************************************************************************)
\* what a tick draws: the random id (a create), the view engine's result (the
\* users view), the result of the static file lookup (an exchange waiting in
\* the static stage); a tick that reads none of them draws the first of each
Inputs(x) ==
  [rnd : IF x.req \in CreateRequests THEN RandomIds ELSE {0},
   renderOk : IF x.req.method = "GET" /\ x.req.path = <<"users">>
                THEN BOOLEAN ELSE {TRUE},
   io : IF x.at = 1 THEN {"ok", "eio"} ELSE {"ok"}]

Creates(x) == x.req \in CreateRequests

PendingCreates ==
  BagCardinality([x \in {y \in BagToSet(pending) : Creates(y)} |-> pending[x]])

\* the server takes requests once it listens
CanReceive == mainPc = "listening" /\ proc = "running" /\ done = <<>>

\* the outcome o of a tick for exchange x
Settle(o, rest) ==
  IF o.type = "wait"
    THEN /\ BagCardinality(rest) < MaxInFlight
         /\ pending' = rest (+) SetToBag({o.x})
         /\ UNCHANGED <<users, done, posted>>
    ELSE /\ pending' = rest
         /\ users' = o.users
         /\ done' = <<o.x>>
         /\ posted' = IF o.x.res.kind = "redirect" /\ Creates(o.x)
                        THEN Append(posted, o.x.req.name)
                        ELSE posted

\* a request arrives and runs down the chain
Receive ==
  /\ CanReceive
  /\ \E r \in Requests :
       /\ r \in CreateRequests => Len(users) + PendingCreates < MaxUsers
       /\ \E in \in Inputs(NewExchange(r)) :
            Settle(Walk(NewExchange(r), 1, users, FALSE, in), pending)
  /\ UNCHANGED <<mainPc, stack, dbPc, dbLog, proc, ex>>

\* the I/O an exchange waits for completes
Resume ==
  /\ proc = "running"
  /\ done = <<>>
  /\ \E x \in BagToSet(pending) : \E in \in Inputs(x) :
       Settle(Walk(x, x.at, users, TRUE, in), pending (-) SetToBag({x}))
  /\ UNCHANGED <<mainPc, stack, dbPc, dbLog, proc, ex>>

\* the tick that answered an exchange ends
EndTick ==
  /\ done # <<>>
  /\ done' = <<>>
  /\ UNCHANGED <<mainPc, stack, dbPc, dbLog, proc, users, pending, posted, ex>>

Next == MainStep \/ DbStep \/ Receive \/ Resume \/ EndTick

Spec == Init /\ [][Next]_vars

(***************************************************************************)
(* Properties.                                                             *)
(***************************************************************************)
Answered == done # <<>>
X == done[1]

Last(q) == q[Len(q)]
Occurrences(q, e) == Cardinality({i \in 1..Len(q) : q[i] = e})

\* C1: an exchange in which a stage or a route handler failed is answered with
\* status 500 and the body "Something went wrong: " followed by the error's
\* message, whatever the kind of the error.
Thm_C1 ==
  (Answered /\ X.err # NoErr) =>
    /\ X.res.status = 500
    /\ X.res.kind = "text"
    /\ X.res.text = "Something went wrong: " \o X.err.message

Witness_C1 ==
  /\ Answered
  /\ X.failedAt = "json"
  /\ X.err.kind = "SyntaxError"
  /\ X.res.text = "Something went wrong: Unexpected token in JSON"

\* C2: once a stage has failed, the only stage that runs after it is onError,
\* and it runs next: the failing stage is the one before last of the stages
\* run, onError the last, and onError ran once.
Thm_C2 ==
  (Answered /\ X.err # NoErr) =>
    /\ Len(X.trace) >= 2
    /\ Last(X.trace) = "onError"
    /\ X.trace[Len(X.trace) - 1] = X.failedAt
    /\ Occurrences(X.trace, "onError") = 1

Witness_C2 ==
  /\ Answered
  /\ X.req.method = "GET" /\ X.req.path = <<"users">>
  /\ X.failedAt = "static"
  /\ X.trace = <<"static", "onError">>

RouterHandlers == {UsersRouter[k].name : k \in 1..Len(UsersRouter)}
Upstream == <<"static", "json", "urlencoded", "logRequestInfo", "logRequestTime">>
IndexOf(q, n) == CHOOSE i \in 1..Len(q) : q[i].name = n

\* C3: an exchange that reached a handler of the /users router ran, before it
\* and in this order, static, json, urlencoded, logRequestInfo and
\* logRequestTime, each once; and in the chain requests run down, onError is
\* registered after the router and is the last layer.
Thm_C3 ==
  /\ (Answered /\ \E i \in 1..Len(X.trace) : X.trace[i] \in RouterHandlers) =>
       /\ Len(X.trace) >= 6
       /\ SubSeq(X.trace, 1, 5) = Upstream
       /\ X.trace[6] \in RouterHandlers
       /\ \A i \in 1..5 : Occurrences(X.trace, Upstream[i]) = 1
  /\ mainPc \in {"binding", "listening"} =>
       /\ Last(stack).name = "onError"
       /\ IndexOf(stack, "users") < IndexOf(stack, "onError")

Witness_C3 ==
  /\ Answered
  /\ X.trace = Upstream \o <<"users.post">>
  /\ X.res.kind = "redirect"

Front(q) == IF q = <<>> THEN q ELSE SubSeq(q, 1, Len(q) - 1)

\* where a client that asked for req is sent by a Location header with one
\* relative segment: the request's directory, then the segment
Resolve(req, location) ==
  (IF req.slash THEN req.path ELSE Front(req.path)) \o <<location>>

NamesIn(us) == {us[i].name : i \in 1..Len(us)}
PostedNames == {posted[i] : i \in 1..Len(posted)}
IsPostUsers(req) == req.method = "POST" /\ req.path = <<"users">> /\ ~req.slash
IsGetUsers(req) == req.method = "GET" /\ req.path = <<"users">>

ListedAfterAlice ==
  Answered /\ IsGetUsers(X.req) /\ X.res.kind = "render" /\ posted = <<"Alice">>

\* C5 as stated: after the single creation of "Alice", the list holds exactly
\* one entry, named "Alice", with no tasks.
CE_C5 ==
  ListedAfterAlice =>
    /\ Len(X.res.users) = 1
    /\ X.res.users[1].name = "Alice"
    /\ X.res.users[1].tasks = <<>>

\* C5 as amended: after the single creation of "Alice", the list holds exactly
\* two entries: the user the array starts with (id 1, "Antonio", no tasks) and
\* one named "Alice" with no tasks.
Thm_C5 ==
  ListedAfterAlice =>
    /\ Len(X.res.users) = 2
    /\ SeedUser \in {X.res.users[i] : i \in 1..2}
    /\ \E i \in 1..2 : X.res.users[i].name = "Alice" /\ X.res.users[i].tasks = <<>>

Witness_C5 == ListedAfterAlice /\ Len(X.res.users) = 2

\* C6: no two users of the store have the same id.
CE_C6 ==
  \A i, j \in 1..Len(users) : i # j => users[i].id # users[j].id

PlaceholderText(path) ==
  IF Len(path) = 5 THEN "Delete task"
  ELSE IF path[3] = "delete" THEN "Delete user" ELSE "Create task"

AnswersNow(S) == done = <<>> /\ done' # <<>> /\ done'[1].req \in S

\* C7: the step that answers one of the three placeholder routes answers 200
\* with the route's fixed text and leaves the users and their tasks as they
\* were, for every id and taskId.
Thm_C7 ==
  [][AnswersNow(PlaceholderRequests) =>
       /\ done'[1].res = Res(200, "text", PlaceholderText(done'[1].req.path), "", <<>>)
       /\ users' = users]_vars

IdsIn(us) == {us[i].id : i \in 1..Len(us)}

Witness_C7 ==
  /\ Answered
  /\ X.req.path = <<"users", "1", "delete">>
  /\ X.res.text = "Delete user"
  /\ 1 \in IdsIn(users)
  /\ Len(users) = 2

RECURSIVE TaskCount(_)
TaskCount(us) == IF us = <<>> THEN 0 ELSE Len(us[1].tasks) + TaskCount(Tail(us))

CreateTaskUnknown ==
  { r \in PlaceholderRequests :
      Len(r.path) = 3 /\ r.path[3] = "tasks" /\ ParseId(r.path[2]) \notin IdsIn(users) }

\* C8: creating a task under an id that names no user fails with NotFoundError
\* and leaves the number of tasks as it was.
CE_C8 ==
  [][AnswersNow(CreateTaskUnknown) =>
       /\ done'[1].err.kind = "NotFoundError"
       /\ TaskCount(users') = TaskCount(users)]_vars

\* C9: a failure of authenticate or of sync is only logged: dbInit's promise is
\* never rejected and the process goes on.
CE_C9 == dbPc # "rejected" /\ proc = "running"

\* C10: nothing orders the schema before the requests: dbInit's promise is
\* still pending while the script registers the chain, the script goes on
\* to app.listen without waiting for it, and the listening server takes a
\* request whatever dbInit has reached.
Thm_C10 ==
  /\ mainPc = "wiring" => dbPc = "authenticate" /\ ENABLED (Register \/ Listen)
  /\ (mainPc = "listening" /\ proc = "running" /\ done = <<>> /\ pending = EmptyBag) =>
       ENABLED Receive

Witness_C10 ==
  /\ Answered
  /\ mainPc = "listening"
  /\ X.res.status = 200
  /\ dbPc \in {"authenticate", "sync", "rejected"}

Routed(req) ==
  \/ req.method = "GET" /\ req.path = <<>>
  \/ req.path # <<>> /\ req.path[1] = "users"

Waiting(S) == {x \in BagToSet(pending) : x.req \in S}
RoutedRequests == {r \in Requests : Routed(r)}

\* C11: a request that matches a registered route gets exactly one response:
\* an exchange that waits has sent nothing, an exchange that stops waiting is
\* answered in that step, and an answered exchange has sent one response.
CE_C11 ==
  [][/\ \A x \in Waiting(RoutedRequests) :
          /\ x.sent = 0
          /\ CopiesIn(x, pending') < CopiesIn(x, pending) =>
               done' # <<>> /\ done'[1].req = x.req
     /\ (done' # <<>> /\ done'[1].req \in RoutedRequests) => done'[1].sent = 1]_vars


Invoked(h, arg) == \E i \in 1..Len(ex.invoked) : ex.invoked[i] = [handler |-> h, arg |-> arg]

\* C12: when the script of the event emitter example has run, its 'COMPLETE'
\* handler was called with the files if the read succeeded, and deleteFiles
\* was started with them; its 'ERROR' handler was called with the error if the
\* read failed.
CE_C12 ==
  ex.pc = "end" =>
    IF ex.bad
      THEN Invoked("readError", Arg(<<>>, "Something crashed"))
      ELSE Invoked("readComplete", Arg(ex.files, "")) /\ ex.deleting = <<ex.files>>

====
